---------------------------- MODULE Spec2Model ----------------------------
(***************************************************************************)
(* A model of the data-aggregation core of TCtracker's plot_tc_csc/tstorms *)
(* package:                                                                *)
(*                                                                         *)
(*   - ori._read_stats, the parser of the statistics report (SpecStats);   *)
(*   - its inner loop on lines of integer tokens (SpecYearLn);             *)
(*   - the histogram ingestion loop of ori.__init__ (SpecHist);            *)
(*   - cat_ori_files, the concatenation of the per-year files (SpecCat);   *)
(*   - the whole run: ori._gen_stats followed by the ingestion loop, and   *)
(*     the script of ori_stat.py (SpecOri).                                *)
(*                                                                         *)
(* Text is modelled as sequences of one-character strings, so that the     *)
(* three regular expressions of _read_stats are matched character by       *)
(* character.  Longitudes and latitudes are integers in tenths of a        *)
(* degree: every grid boundary of the code is a multiple of 0.5 degree and *)
(* is exact in binary floating point, and a value given in tenths that is  *)
(* not on a boundary is at least 0.02 index units away from it, so the     *)
(* float arithmetic of the code and the integer arithmetic here agree.     *)
(***************************************************************************)
EXTENDS Integers, Sequences, FiniteSets, TLC

VARIABLES
    \* ---- ori._read_stats ----
    report,        \* the lines of stat_file handed out by the iterator f so far
    rs_pc,         \* position of _read_stats: "outer", "skip", "inner", "done"
    box,           \* the local variable box (the StormBox of the open section)
    return_boxes,  \* the dict return_boxes
    \* ---- ori.__init__, histogram ingestion ----
    files,         \* the directory: year -> lines of ori_<year>; absent years are not in the domain
    beg_year,      \* first year of the range
    end_year,      \* last year of the range
    h_pc,          \* "years", "lines", "done", or the exception raised
    h_year,        \* the year whose file is open (the value the range iterator gave)
    h_line,        \* number of lines of the open file already read
    xcyc,          \* local xcyc (tenths of a degree)
    ycyc,          \* local ycyc (tenths of a degree)
    i,             \* local i, after the wraparound
    j,             \* local j
    storm_count,   \* self.storm_count, the (ix, jx) grid
    \* ---- cat_ori_files ----
    cat_pc,        \* "open", "years", "done", or the exception raised
    cat_year,      \* next year of the loop
    cat_impl,      \* which cat_ori_files runs: "ori" (the method) or "ori_stat" (the function)
    fname,         \* the local fname (rebound in the loop of ori.cat_ori_files)
    combined,      \* content of the combined file
    retval,        \* the value returned
    \* ---- ori._gen_stats and the script of ori_stat.py ----
    gs_pc,         \* "start", "cat", "copy", "exit", "done", or the exception raised
    cwd,           \* the working directory of the process: "prev_cwd" or "tmpdir"
    tmpdir,        \* the temporary directory: "none", "exists", "deleted"
    returncode,    \* the exit status of the statistics generator
    stat_mo,       \* TRUE iff the generator has left stat_mo in the working directory
    stats_file     \* TRUE iff stats_<type>_<beg>-<end> is in the output location

stats_vars == <<report, rs_pc, box, return_boxes>>
hist_vars  == <<h_pc, h_year, h_line, xcyc, ycyc, i, j, storm_count>>
cat_vars   == <<cat_pc, cat_year, cat_impl, fname, combined, retval>>
dir_vars   == <<files, beg_year, end_year>>
gen_vars   == <<gs_pc, cwd, tmpdir, returncode, stat_mo, stats_file>>
vars       == <<stats_vars, hist_vars, cat_vars, dir_vars, gen_vars>>

-----------------------------------------------------------------------------
(* Characters and text *)

Digit == {"0", "1", "2", "3", "4", "5", "6", "7", "8", "9"}
NumChar == Digit \cup {"."}
Upper == {"A", "B", "C", "D", "E", "F", "G", "H", "I", "J", "K", "L", "M",
          "N", "O", "P", "Q", "R", "S", "T", "U", "V", "W", "X", "Y", "Z"}

\* TRUE iff every character of line[a..b] is in class C
IsClass(line, a, b, C) == \A k \in a..b : line[k] \in C

\* the position after the spaces that start at p (what a greedy " *" consumes
\* when the next item cannot match a space)
RECURSIVE SkipSp(_, _)
SkipSp(line, p) ==
    IF p <= Len(line) /\ line[p] = " " THEN SkipSp(line, p + 1) ELSE p

\* TRUE iff line[p..] matches (?: *C+){k}$
RECURSIVE Reps(_, _, _, _)
Reps(line, p, k, C) ==
    IF k = 0
    THEN p = Len(line) + 1
    ELSE LET q == SkipSp(line, p)
         IN  \E e \in (q + 1)..(Len(line) + 1) :
                 IsClass(line, q, e - 1, C) /\ Reps(line, e, k - 1, C)

\* the end (exclusive) of the greedy C+ that starts at q when k more
\* repetitions of " *C+" and the end of the line must follow
GreedyEnd(line, q, k, C) ==
    LET ok == {e \in (q + 1)..(Len(line) + 1) :
                   IsClass(line, q, e - 1, C) /\ Reps(line, e, k, C)}
    IN  CHOOSE e \in ok : \A d \in ok : d <= e

\* the position after r greedy repetitions of " *C+" from p, when `after`
\* more repetitions must follow them
RECURSIVE RepsEnd(_, _, _, _, _)
RepsEnd(line, p, r, after, C) ==
    IF r = 0
    THEN p
    ELSE RepsEnd(line, GreedyEnd(line, SkipSp(line, p), (r - 1) + after, C),
                 r - 1, after, C)

\* A match is the sequence of its groups; no match (None) is <<>>.
BoxHdrText == <<" ", " ", "*", "*", "*", " ", "B", "o", "x", " ", "=">>

\* __boxhdr = ^ {2}\*{3} Box = {1,2}([A-Z]{1,2})$
boxhdr(line) ==
    LET n == Len(line)
        p == Len(BoxHdrText)
        fits == {sp \in 1..2 :
                    /\ n - p - sp \in 1..2
                    /\ SubSeq(line, 1, p) = BoxHdrText
                    /\ IsClass(line, p + 1, p + sp, {" "})
                    /\ IsClass(line, p + sp + 1, n, Upper)}
    IN  IF fits = {}
        THEN <<>>
        ELSE LET sp == CHOOSE s \in fits : TRUE
             IN  <<SubSeq(line, p + sp + 1, n)>>

\* __yearln = ^ *([0-9]+)((?: *[0-9]+){12}) *([0-9]+)$
yearln(line) ==
    IF Reps(line, 1, 14, Digit)
    THEN LET q1 == SkipSp(line, 1)
             e1 == GreedyEnd(line, q1, 13, Digit)
             e2 == RepsEnd(line, e1, 12, 1, Digit)
             q3 == SkipSp(line, e2)
         IN  <<SubSeq(line, q1, e1 - 1), SubSeq(line, e1, e2 - 1),
               SubSeq(line, q3, Len(line))>>
    ELSE <<>>

StatLabels == << <<"s", "u", "m">>, <<"s", "p", "r", "d">>,
                 <<"m", "e", "a", "n">>, <<"s", "t", "d">> >>

\* __statln = ^ *(sum|sprd|mean|std)((?: *[0-9.]+){13})$
statln(line) ==
    LET q == SkipSp(line, 1)
        fits == {a \in 1..Len(StatLabels) :
                    /\ q + Len(StatLabels[a]) - 1 <= Len(line)
                    /\ SubSeq(line, q, q + Len(StatLabels[a]) - 1) = StatLabels[a]
                    /\ Reps(line, q + Len(StatLabels[a]), 13, NumChar)}
    IN  IF fits = {}
        THEN <<>>
        ELSE LET a == CHOOSE b \in fits : \A c \in fits : b <= c
             IN  <<StatLabels[a],
                   SubSeq(line, q + Len(StatLabels[a]), Len(line))>>


-----------------------------------------------------------------------------
(* The statistics report: ori._read_stats *)

\* the most lines a report holds
MaxReportLines == 7

RECURSIVE Rep(_, _)
Rep(s, n) == IF n = 0 THEN <<>> ELSE s \o Rep(s, n - 1)

\* "  *** Box = NH" and "  *** Box = SH"
HdrNH == BoxHdrText \o <<" ", "N", "H">>
HdrSH == BoxHdrText \o <<" ", "S", "H">>
\* "2001 1 1 1 1 1 1 1 1 1 1 1 1 12"
YearLine == <<"2", "0", "0", "1">> \o Rep(<<" ", "1">>, 12) \o <<" ", "1", "2">>
\* "mean 1.0 1.0 1.0 1.0 1.0 1.0 1.0 1.0 1.0 1.0 1.0 1.0 12.0"
MeanLine == <<"m", "e", "a", "n">> \o Rep(<<" ", "1", ".", "0">>, 12)
                \o <<" ", "1", "2", ".", "0">>
\* an empty line
BlankLine == <<>>

\* the lines a report is made of
ReportLines == {HdrNH, HdrSH, YearLine, MeanLine, BlankLine}

\* the fewest and the most tokens of a line of integers
MinTokens == 12
MaxTokens == 15

\* an integer token of w digits
TokenDigits == <<"1", "2", "3", "4">>
Token(w) == SubSeq(TokenDigits, 1, w)

\* the line of the n integer tokens of widths ws, one space between them
RECURSIVE JoinTokens(_, _)
JoinTokens(ws, n) ==
    IF n = 0 THEN <<>>
    ELSE IF n = 1 THEN Token(ws[1])
    ELSE JoinTokens(ws, n - 1) \o <<" ">> \o Token(ws[n])

\* the lines of MinTokens..MaxTokens integer tokens of which at most two,
\* tokens a and b, have two digits and the others one
TokenLines ==
    UNION {{JoinTokens([k \in 1..n |-> IF k \in {a, b} THEN 2 ELSE 1], n) :
                a \in 0..n, b \in 0..n} : n \in MinTokens..MaxTokens}

\* box_match, year_match and stat_match of every line: the matches depend
\* on the line alone
match == [l \in ReportLines \cup TokenLines |->
             [box |-> boxhdr(l), year |-> yearln(l), stat |-> statln(l)]]

\* StormBox(id): a new record for region id, with no year rows and no
\* aggregate rows
StormBox(id) == [id |-> id, storms |-> <<>>, stats |-> <<>>]

\* box.add_storms(year, months, total): appends a year row
add_storms(b, year, months, total) ==
    [b EXCEPT !.storms = Append(@, <<year, months, total>>)]

\* box.add_stats(label, values): records the row under its label
add_stats(b, label, values) ==
    [b EXCEPT !.stats = (label :> values) @@ @]

\* the iterator f hands out one more line
NextLine(l) ==
    /\ Len(report) < MaxReportLines
    /\ report' = Append(report, l)

\* a store that merges with the entry already there
StoreBoxMerge(boxes, b) ==
    IF b.id \in DOMAIN boxes
    THEN (b.id :> [b EXCEPT !.storms = boxes[b.id].storms \o @,
                            !.stats = @ @@ boxes[b.id].stats]) @@ boxes
    ELSE (b.id :> b) @@ boxes

\* return_boxes[box.id] = box
StoreBox(boxes, b) == (b.id :> b) @@ boxes

\* _read_stats changes nothing else
StatsFrame == UNCHANGED <<hist_vars, cat_vars, dir_vars, gen_vars>>

StatsIdle ==
    /\ report = <<>>
    /\ rs_pc = "idle"
    /\ box = StormBox(<<>>)
    /\ return_boxes = <<>>

StatsInit ==
    /\ report = <<>>
    /\ rs_pc = "outer"
    /\ box = StormBox(<<>>)
    /\ return_boxes = <<>>

\* for line in f: the line matches __boxhdr
OuterHeader ==
    /\ StatsFrame
    /\ rs_pc = "outer"
    /\ \E l \in ReportLines :
          /\ match[l].box # <<>>
          /\ NextLine(l)
          /\ box' = StormBox(match[l].box[1])
    /\ rs_pc' = "skip"
    /\ UNCHANGED return_boxes

\* for line in f: the line does not match __boxhdr
OuterOther ==
    /\ StatsFrame
    /\ rs_pc = "outer"
    /\ \E l \in ReportLines :
          /\ match[l].box = <<>>
          /\ NextLine(l)
    /\ UNCHANGED <<rs_pc, box, return_boxes>>

\* for line in f: the stream has ended; return return_boxes
OuterEnd ==
    /\ StatsFrame
    /\ rs_pc = "outer"
    /\ rs_pc' = "done"
    /\ UNCHANGED <<report, box, return_boxes>>

\* a skip that tests the line it takes as a year line
SkipLineTested ==
    /\ StatsFrame
    /\ rs_pc = "skip"
    /\ \E l \in ReportLines :
          /\ NextLine(l)
          /\ box' = IF match[l].year # <<>>
                    THEN add_storms(box, match[l].year[1], match[l].year[2], match[l].year[3])
                    ELSE box
    /\ rs_pc' = "inner"
    /\ UNCHANGED return_boxes

\* next(f, None) takes a line
SkipLine ==
    /\ StatsFrame
    /\ rs_pc = "skip"
    /\ \E l \in ReportLines : NextLine(l)
    /\ rs_pc' = "inner"
    /\ UNCHANGED <<box, return_boxes>>

\* next(f, None) finds the stream ended: both loops end at once
SkipEnd ==
    /\ StatsFrame
    /\ rs_pc = "skip"
    /\ rs_pc' = "done"
    /\ UNCHANGED <<report, box, return_boxes>>

\* for line2 in f: the line matches __yearln
InnerYear ==
    /\ StatsFrame
    /\ rs_pc = "inner"
    /\ \E l \in ReportLines :
          /\ match[l].year # <<>>
          /\ NextLine(l)
          /\ box' = add_storms(box, match[l].year[1], match[l].year[2], match[l].year[3])
    /\ UNCHANGED <<rs_pc, return_boxes>>

\* for line2 in f: the line matches __statln and not __yearln
InnerStat ==
    /\ StatsFrame
    /\ rs_pc = "inner"
    /\ \E l \in ReportLines :
          /\ match[l].year = <<>>
          /\ match[l].stat # <<>>
          /\ NextLine(l)
          /\ box' = add_stats(box, match[l].stat[1], match[l].stat[2])
    /\ UNCHANGED <<rs_pc, return_boxes>>

\* for line2 in f: any other line stores the box and breaks
InnerOther ==
    /\ StatsFrame
    /\ rs_pc = "inner"
    /\ \E l \in ReportLines :
          /\ match[l].year = <<>>
          /\ match[l].stat = <<>>
          /\ NextLine(l)
    /\ return_boxes' = StoreBox(return_boxes, box)
    /\ rs_pc' = "outer"
    /\ UNCHANGED box

\* for line2 in f: the stream has ended; the outer loop ends too
InnerEnd ==
    /\ StatsFrame
    /\ rs_pc = "inner"
    /\ rs_pc' = "done"
    /\ UNCHANGED <<report, box, return_boxes>>

\* the most lines read inside the section when the lines are lines of
\* integer tokens
MaxSectionLines == 1

\* _read_stats has read a header line and skipped the line after it
YearLnInit ==
    /\ report = <<HdrNH, BlankLine>>
    /\ rs_pc = "inner"
    /\ box = StormBox(match[HdrNH].box[1])
    /\ return_boxes = <<>>

\* for line2 in f: a line of integer tokens that matches __yearln
YearLnMatch ==
    /\ StatsFrame
    /\ rs_pc = "inner"
    /\ Len(report) < 2 + MaxSectionLines
    /\ \E l \in TokenLines :
          /\ match[l].year # <<>>
          /\ NextLine(l)
          /\ box' = add_storms(box, match[l].year[1], match[l].year[2], match[l].year[3])
    /\ UNCHANGED <<rs_pc, return_boxes>>

\* for line2 in f: a line of integer tokens that matches neither __yearln
\* nor __statln stores the box and breaks
YearLnNoMatch ==
    /\ StatsFrame
    /\ rs_pc = "inner"
    /\ Len(report) < 2 + MaxSectionLines
    /\ \E l \in TokenLines :
          /\ match[l].year = <<>>
          /\ match[l].stat = <<>>
          /\ NextLine(l)
    /\ return_boxes' = StoreBox(return_boxes, box)
    /\ rs_pc' = "outer"
    /\ UNCHANGED box

\* the inner loop on lines of integer tokens, then the end of the stream
YearLnNext ==
    \/ YearLnMatch
    \/ YearLnNoMatch
    \/ InnerEnd
    \/ OuterEnd

StatsNext ==
    \/ OuterHeader
    \/ OuterOther
    \/ OuterEnd
    \/ SkipLine
    \/ SkipEnd
    \/ InnerYear
    \/ InnerStat
    \/ InnerOther
    \/ InnerEnd


-----------------------------------------------------------------------------
(* The histogram: the ingestion loop of ori.__init__ *)

\* class constants, in tenths of a degree
DLON == 50
DLAT == 40
SLAT == -860

\* int(a/b) for b > 0: Python's int() truncates toward zero
TruncDiv(a, b) == IF a >= 0 THEN a \div b ELSE -((-a) \div b)

\* ix = int(360.0/self.DLON)
ix == TruncDiv(3600, DLON)
\* jx = int((90-self.SLAT)/self.DLAT)
jx == TruncDiv(900 - SLAT, DLAT)

\* the longitude index without the half cell
lon_index_no_half(x) == TruncDiv(x, DLON)

\* int(xcyc/self.DLON + 0.5)
lon_index(x) == TruncDiv(2 * x + DLON, 2 * DLON)
\* int((ycyc - self.SLAT)/self.DLAT + 0.5)
lat_index(y) == TruncDiv(2 * (y - SLAT) + DLAT, 2 * DLAT)

\* "Deal with the wrap around indices"
wrap(k) == IF k < 0 THEN ix + k ELSE IF k >= ix THEN k - ix ELSE k

\* numpy indexing of an axis of length n: -n..n-1 are valid, a negative
\* index counts from the end, anything else raises IndexError
np_valid(k, n) == -n <= k /\ k < n
np_index(k, n) == IF k < 0 THEN n + k ELSE k

\* numpy.zeros((ix, jx), dtype=int)
zeros == [a \in 0..(ix - 1) |-> [b \in 0..(jx - 1) |-> 0]]

\* an assignment of 1 in place of the increment
increment_assign(grid, a, b) ==
    [grid EXCEPT ![np_index(a, ix)][np_index(b, jx)] = 1]

\* self.storm_count[i][j] += 1
increment(grid, a, b) ==
    [grid EXCEPT ![np_index(a, ix)][np_index(b, jx)] = @ + 1]

\* the most event lines the files of a directory hold together
MaxEvents == 2

\* an event line is the sequence of its whitespace-separated tokens:
\* longitude, latitude (tenths of a degree), year, month, day, hour
Event(lon, lat) == <<lon, lat, 2001, 6, 15, 0>>

\* the event lines the files are made of; the empty line has no tokens
EventLines ==
    { Event(-50, 0), Event(-25, 0), Event(3575, 0), Event(30, 0),
      Event(1823, -870), Event(1823, -920), Event(1823, 900),
      Event(7175, 0), Event(7200, 0), <<>> }

HistYears == {2001, 2002}

\* sequences over S of length at most n
SeqUpTo(S, n) == UNION {[1..k -> S] : k \in 0..n}

\* the directories over a set of years: a year has a file or has none, and
\* the files hold at most n lines together
RECURSIVE Directories(_, _, _)
Directories(years, lines, n) ==
    IF years = {}
    THEN {<<>>}
    ELSE LET y == CHOOSE a \in years : \A b \in years : a <= b
             rest == years \ {y}
         IN  Directories(rest, lines, n)
             \cup UNION {{(y :> c) @@ d : d \in Directories(rest, lines, n - Len(c))} :
                            c \in SeqUpTo(lines, n)}

\* ingestion changes nothing else
HistFrame == UNCHANGED <<stats_vars, cat_vars, dir_vars, gen_vars>>

HistIdle ==
    /\ h_pc = "idle"
    /\ h_year = 0
    /\ h_line = 0
    /\ xcyc = 0
    /\ ycyc = 0
    /\ i = 0
    /\ j = 0
    /\ storm_count = <<>>

HistInit ==
    /\ beg_year \in HistYears
    /\ end_year \in HistYears
    /\ files \in Directories(beg_year..end_year, EventLines, MaxEvents)
    /\ h_pc = "years"
    /\ h_year = beg_year
    /\ h_line = 0
    /\ xcyc = 0
    /\ ycyc = 0
    /\ i = 0
    /\ j = 0
    /\ storm_count = zeros

\* for year in range(beg_year, end_year + 1): open(fname, 'r') succeeds
HistOpen ==
    /\ HistFrame
    /\ h_pc = "years"
    /\ h_year <= end_year
    /\ h_year \in DOMAIN files
    /\ h_pc' = "lines"
    /\ h_line' = 0
    /\ UNCHANGED <<h_year, xcyc, ycyc, i, j, storm_count>>

\* open(fname, 'r') of a file that is not there
HistMissing ==
    /\ HistFrame
    /\ h_pc = "years"
    /\ h_year <= end_year
    /\ h_year \notin DOMAIN files
    /\ h_pc' = "FileNotFoundError"
    /\ UNCHANGED <<h_year, h_line, xcyc, ycyc, i, j, storm_count>>

\* the range is exhausted: __init__ returns
HistDone ==
    /\ HistFrame
    /\ h_pc = "years"
    /\ h_year > end_year
    /\ h_pc' = "done"
    /\ UNCHANGED <<h_year, h_line, xcyc, ycyc, i, j, storm_count>>

\* for line in infile: a line of six tokens whose cell exists
HistCount ==
    /\ HistFrame
    /\ h_pc = "lines"
    /\ h_line < Len(files[h_year])
    /\ LET line == files[h_year][h_line + 1]
       IN  /\ Len(line) = 6
           /\ xcyc' = line[1]
           /\ ycyc' = line[2]
           /\ i' = wrap(lon_index(line[1]))
           /\ j' = lat_index(line[2])
    /\ np_valid(i', ix)
    /\ np_valid(j', jx)
    /\ storm_count' = increment(storm_count, i', j')
    /\ h_line' = h_line + 1
    /\ UNCHANGED <<h_pc, h_year>>

\* for line in infile: a line of six tokens whose cell does not exist
HistIndexError ==
    /\ HistFrame
    /\ h_pc = "lines"
    /\ h_line < Len(files[h_year])
    /\ LET line == files[h_year][h_line + 1]
       IN  /\ Len(line) = 6
           /\ xcyc' = line[1]
           /\ ycyc' = line[2]
           /\ i' = wrap(lon_index(line[1]))
           /\ j' = lat_index(line[2])
    /\ ~ (np_valid(i', ix) /\ np_valid(j', jx))
    /\ h_pc' = "IndexError"
    /\ h_line' = h_line + 1
    /\ UNCHANGED <<h_year, storm_count>>

\* for line in infile: line.split() does not give six tokens
HistValueError ==
    /\ HistFrame
    /\ h_pc = "lines"
    /\ h_line < Len(files[h_year])
    /\ Len(files[h_year][h_line + 1]) # 6
    /\ h_pc' = "ValueError"
    /\ h_line' = h_line + 1
    /\ UNCHANGED <<h_year, xcyc, ycyc, i, j, storm_count>>

\* for line in infile: the file has ended; the next year
HistEndOfFile ==
    /\ HistFrame
    /\ h_pc = "lines"
    /\ h_line = Len(files[h_year])
    /\ h_pc' = "years"
    /\ h_year' = h_year + 1
    /\ UNCHANGED <<h_line, xcyc, ycyc, i, j, storm_count>>

HistNext ==
    \/ HistOpen
    \/ HistMissing
    \/ HistDone
    \/ HistCount
    \/ HistIndexError
    \/ HistValueError
    \/ HistEndOfFile

-----------------------------------------------------------------------------
(* cat_ori_files: ori.cat_ori_files and ori_stat.cat_ori_files *)

\* the most lines the per-year files hold together when they are concatenated
MaxCatLines == 3

CatYears == {2001, 2002, 2003}
CatLines == {Event(30, 0), Event(1823, -870)}

\* a path: the directory, the file name and the year in the name
OutPath == [dir |-> "cwd", name |-> "ori", year |-> 0]
\* os.path.join(directory, "ori_{:04d}".format(year))
OriPath(year) == [dir |-> "directory", name |-> "ori_", year |-> year]
None == [dir |-> "", name |-> "", year |-> 0]

\* what the combined file may hold before the call
PrevContents == {<<>>, <<Event(7200, 0)>>}

\* cat_ori_files changes nothing else
CatFrame == UNCHANGED <<stats_vars, hist_vars, dir_vars, gen_vars, cat_impl>>

CatIdle ==
    /\ cat_pc = "idle"
    /\ cat_year = 0
    /\ cat_impl = "ori"
    /\ fname = None
    /\ combined = <<>>
    /\ retval = None

DirIdle ==
    /\ files = <<>>
    /\ beg_year = 0
    /\ end_year = 0

CatInit ==
    /\ beg_year \in CatYears
    /\ end_year \in CatYears
    /\ files \in Directories(beg_year..end_year, CatLines, MaxCatLines)
    /\ cat_impl \in {"ori", "ori_stat"}
    /\ cat_pc = "open"
    /\ cat_year = beg_year
    /\ fname = OutPath
    /\ combined \in PrevContents
    /\ retval = None

\* the combined file opened for appending
CatOpenAppend ==
    /\ CatFrame
    /\ cat_pc = "open"
    /\ cat_pc' = "years"
    /\ UNCHANGED <<cat_year, fname, combined, retval>>

\* with open(fname, 'w') as outfile: the file is truncated
CatOpen ==
    /\ CatFrame
    /\ cat_pc = "open"
    /\ combined' = <<>>
    /\ cat_pc' = "years"
    /\ UNCHANGED <<cat_year, fname, retval>>

\* one year of the loop: outfile.write(infile.read())
CatCopy ==
    /\ CatFrame
    /\ cat_pc = "years"
    /\ cat_year <= end_year
    /\ cat_year \in DOMAIN files
    /\ fname' = OriPath(cat_year)
    /\ combined' = combined \o files[cat_year]
    /\ cat_year' = cat_year + 1
    /\ UNCHANGED <<cat_pc, retval>>

\* a loop that passes over a year whose file is not there
CatMissingSkip ==
    /\ CatFrame
    /\ cat_pc = "years"
    /\ cat_year <= end_year
    /\ cat_year \notin DOMAIN files
    /\ fname' = OriPath(cat_year)
    /\ cat_year' = cat_year + 1
    /\ UNCHANGED <<cat_pc, combined, retval>>

\* one year of the loop: open(fname) of a file that is not there
CatMissing ==
    /\ CatFrame
    /\ cat_pc = "years"
    /\ cat_year <= end_year
    /\ cat_year \notin DOMAIN files
    /\ fname' = OriPath(cat_year)
    /\ cat_pc' = "FileNotFoundError"
    /\ UNCHANGED <<cat_year, combined, retval>>

\* the range is exhausted: the method returns os.path.realpath(fname),
\* the function of ori_stat returns nothing
CatReturn ==
    /\ CatFrame
    /\ cat_pc = "years"
    /\ cat_year > end_year
    /\ cat_pc' = "done"
    /\ retval' = IF cat_impl = "ori" THEN fname ELSE None
    /\ UNCHANGED <<cat_year, fname, combined>>

CatNext ==
    \/ CatOpen
    \/ CatCopy
    \/ CatMissing
    \/ CatReturn

-----------------------------------------------------------------------------
(* The whole run: ori.__init__ (_gen_stats, then the ingestion loop) and   *)
(* the script of ori_stat.py.  cat_impl tells which of the two runs.       *)

\* the exit statuses of a process that are told apart: zero and non-zero
ExitCodes == {0, 1}

\* _gen_stats and the script change nothing else
GenFrame == UNCHANGED <<stats_vars, hist_vars, dir_vars, cat_impl>>

GenIdle ==
    /\ gs_pc = "idle"
    /\ cwd = "prev_cwd"
    /\ tmpdir = "none"
    /\ returncode = 0
    /\ stat_mo = FALSE
    /\ stats_file = FALSE

\* ori(ori_dir, beg_year, end_year) is constructed, or the script is started
OriInit ==
    /\ beg_year \in HistYears
    /\ end_year \in HistYears
    /\ files \in Directories(beg_year..end_year, EventLines, MaxEvents)
    /\ cat_impl \in {"ori", "ori_stat"}
    /\ cat_pc = "idle"
    /\ cat_year = 0
    /\ fname = None
    /\ combined = <<>>
    /\ retval = None
    /\ gs_pc = "start"
    /\ cwd = "prev_cwd"
    /\ tmpdir = "none"
    /\ returncode = 0
    /\ stat_mo = FALSE
    /\ stats_file = FALSE

\* prev_cwd = os.getcwd(); with tempfile.TemporaryDirectory() as tmpdir:
\* os.chdir(tmpdir); cat_ori_files is called
GenEnter ==
    /\ GenFrame
    /\ gs_pc = "start"
    /\ tmpdir' = "exists"
    /\ cwd' = "tmpdir"
    /\ gs_pc' = "cat"
    /\ cat_pc' = "open"
    /\ cat_year' = beg_year
    /\ fname' = OutPath
    /\ UNCHANGED <<combined, retval, returncode, stat_mo, stats_file>>

\* cat_ori_files has raised: the with block is left by the exception, the
\* temporary directory is removed, and the exception goes on to the caller
GenCatRaised ==
    /\ GenFrame
    /\ gs_pc = "cat"
    /\ cat_pc = "FileNotFoundError"
    /\ tmpdir' = "deleted"
    /\ gs_pc' = "FileNotFoundError"
    /\ UNCHANGED <<cat_vars, cwd, returncode, stat_mo, stats_file>>

\* cat_ori_files has returned and the generator runs.  The script runs it
\* with subprocess.run, without check: whatever the exit status, the call
\* returns.  _gen_stats calls the subroutine in the process: a call that
\* returns has no exit status.  Either may or may not have left stat_mo.
GenRun ==
    /\ GenFrame
    /\ gs_pc = "cat"
    /\ cat_pc = "done"
    /\ \E rc \in (IF cat_impl = "ori_stat" THEN ExitCodes ELSE {0}) :
       \E wrote \in BOOLEAN :
          /\ returncode' = rc
          /\ stat_mo' = wrote
    /\ gs_pc' = "copy"
    /\ UNCHANGED <<cat_vars, cwd, tmpdir, stats_file>>

\* shutil.copyfile('stat_mo', ...) when stat_mo is there
GenCopy ==
    /\ GenFrame
    /\ gs_pc = "copy"
    /\ stat_mo
    /\ stats_file' = TRUE
    /\ gs_pc' = "exit"
    /\ UNCHANGED <<cat_vars, cwd, tmpdir, returncode, stat_mo>>

\* shutil.copyfile('stat_mo', ...) when stat_mo is not there: the source is
\* opened first, so nothing is written; the with block is left by the
\* exception and the temporary directory is removed
GenCopyMissing ==
    /\ GenFrame
    /\ gs_pc = "copy"
    /\ ~ stat_mo
    /\ tmpdir' = "deleted"
    /\ gs_pc' = "FileNotFoundError"
    /\ UNCHANGED <<cat_vars, cwd, returncode, stat_mo, stats_file>>

\* the with block ends and the temporary directory is removed; _gen_stats
\* then does os.chdir(prev_cwd) and returns, the script just ends
GenReturn ==
    /\ GenFrame
    /\ gs_pc = "exit"
    /\ tmpdir' = "deleted"
    /\ cwd' = IF cat_impl = "ori" THEN "prev_cwd" ELSE cwd
    /\ gs_pc' = "done"
    /\ UNCHANGED <<cat_vars, returncode, stat_mo, stats_file>>

\* ori.__init__ after _gen_stats: self.stats = self._read_stats() (SpecStats
\* has its steps; it touches none of the variables of the loop), then ix, jx
\* and the grid of zeros
OriAllocate ==
    /\ UNCHANGED <<stats_vars, dir_vars, cat_vars, gen_vars>>
    /\ cat_impl = "ori"
    /\ gs_pc = "done"
    /\ h_pc = "idle"
    /\ h_pc' = "years"
    /\ h_year' = beg_year
    /\ storm_count' = zeros
    /\ UNCHANGED <<h_line, xcyc, ycyc, i, j>>

\* open() in the ingestion loop cannot find a file missing here: in this
\* run cat_ori_files has opened every file of the range before
OriNext ==
    \/ GenEnter
    \/ CatOpen
    \/ CatCopy
    \/ CatMissing
    \/ CatReturn
    \/ GenCatRaised
    \/ GenRun
    \/ GenCopy
    \/ GenCopyMissing
    \/ GenReturn
    \/ OriAllocate
    \/ HistOpen
    \/ HistDone
    \/ HistCount
    \/ HistIndexError
    \/ HistValueError
    \/ HistEndOfFile

-----------------------------------------------------------------------------
(* Specifications *)

\* _read_stats is called; nothing else runs
InitStats == StatsInit /\ HistIdle /\ CatIdle /\ DirIdle /\ GenIdle
SpecStats == InitStats /\ [][StatsNext]_vars

\* the ingestion loop of ori.__init__ starts; nothing else runs
InitHist == HistInit /\ StatsIdle /\ CatIdle /\ GenIdle
SpecHist == InitHist /\ [][HistNext]_vars

\* cat_ori_files is called; nothing else runs
InitCat == CatInit /\ StatsIdle /\ HistIdle /\ GenIdle
SpecCat == InitCat /\ [][CatNext]_vars

\* _read_stats is inside a section whose lines are lines of integer tokens
InitYearLn == YearLnInit /\ HistIdle /\ CatIdle /\ DirIdle /\ GenIdle
SpecYearLn == InitYearLn /\ [][YearLnNext]_vars

\* the whole run: the constructor of ori, or the script of ori_stat.py
InitOri == OriInit /\ StatsIdle /\ HistIdle
SpecOri == InitOri /\ [][OriNext]_vars


-----------------------------------------------------------------------------
(* Definitions the properties are stated with *)

Last(s) == s[Len(s)]

\* the region codes of the header lines of a report
HeaderCodes(lines) ==
    {match[lines[k]].box[1] : k \in {n \in 1..Len(lines) : match[lines[n]].box # <<>>}}

IsHeader(l) == match[l].box # <<>>
IsData(l) == match[l].year # <<>> \/ match[l].stat # <<>>

\* the record of region id whose data lines are `lines`, in that order
RECURSIVE SectionRecord(_, _)
SectionRecord(id, lines) ==
    IF lines = <<>>
    THEN StormBox(id)
    ELSE LET b == SectionRecord(id, SubSeq(lines, 1, Len(lines) - 1))
             l == Last(lines)
         IN  IF match[l].year # <<>>
             THEN add_storms(b, match[l].year[1], match[l].year[2], match[l].year[3])
             ELSE add_stats(b, match[l].stat[1], match[l].stat[2])

\* a report whose first header line is line s and opens a section ended at
\* line a by a line that is no data line, followed at once by a section of
\* the same region code ended at line b by a line that is no data line, with
\* no header line after line b
TwoSections(lines, s, a, b) ==
    /\ 1 <= s /\ s + 2 <= a /\ a + 3 <= b /\ b <= Len(lines)
    /\ IsHeader(lines[s])
    /\ \A k \in 1..(s - 1) : ~ IsHeader(lines[k])
    /\ \A k \in (s + 2)..(a - 1) : IsData(lines[k])
    /\ ~ IsData(lines[a])
    /\ IsHeader(lines[a + 1])
    /\ match[lines[a + 1]].box = match[lines[s]].box
    /\ \A k \in (a + 3)..(b - 1) : IsData(lines[k])
    /\ ~ IsData(lines[b])
    /\ \A k \in (b + 1)..Len(lines) : ~ IsHeader(lines[k])

\* the lines of the files of years a..b, in ascending year order
RECURSIVE Concatenation(_, _, _)
Concatenation(fs, a, b) ==
    IF a > b
    THEN <<>>
    ELSE (IF a \in DOMAIN fs THEN fs[a] ELSE <<>>) \o Concatenation(fs, a + 1, b)

\* the event lines the ingestion loop has read so far
Ingested ==
    Concatenation(files, beg_year, h_year - 1)
    \o (IF h_pc \in {"lines", "IndexError", "ValueError"}
        THEN SubSeq(files[h_year], 1, h_line)
        ELSE <<>>)

\* ingestion has raised nothing so far
NoError == h_pc \in {"years", "lines", "done"}

\* a row of zeros, and the rows of a grid that are not all zeros
ZeroRow == [b \in 0..(jx - 1) |-> 0]
NonZeroRows(grid) == {a \in 0..(ix - 1) : grid[a] # ZeroRow}

\* the sum of the first n cells of a row
RECURSIVE RowSum(_, _)
RowSum(row, n) == IF n = 0 THEN 0 ELSE row[n - 1] + RowSum(row, n - 1)

\* the sum of the rows `rows` of a grid
RECURSIVE RowsSum(_, _)
RowsSum(grid, rows) ==
    IF rows = {}
    THEN 0
    ELSE LET a == CHOOSE x \in rows : TRUE
         IN  RowSum(grid[a], jx) + RowsSum(grid, rows \ {a})

\* the sum of the cells of a grid of shape (ix, jx): the rows of zeros add
\* nothing
GridSum(grid) == RowsSum(grid, NonZeroRows(grid))

\* the cells that hold n, for n > 0
CellsWith(n) ==
    {c \in NonZeroRows(storm_count) \X (0..(jx - 1)) : storm_count[c[1]][c[2]] = n}

-----------------------------------------------------------------------------
(* Properties *)

\* C1: when the line that ends a section (a line read inside the section
\* that is neither a year line nor a stat line) is a header line, a new
\* record is opened for its region code and the parser goes on to skip the
\* column-header line of the new section.
C1_BoundaryHeaderOpensRecord ==
    [][(/\ rs_pc = "inner"
        /\ Len(report') = Len(report) + 1
        /\ IsHeader(Last(report')))
       => (/\ rs_pc' = "skip"
           /\ box' = StormBox(match[Last(report')].box[1]))]_vars

\* C2: when _read_stats has returned, the record opened last is in the
\* mapping under its region code, also when the stream ended while its
\* section was still open.
C2_OpenRecordStoredAtEnd ==
    (rs_pc = "done" /\ box.id # <<>>)
        => (box.id \in DOMAIN return_boxes /\ return_boxes[box.id] = box)

\* C3: the keys of the returned mapping are the region codes of the header
\* lines of the report.
C3_KeysAreHeaderCodes ==
    rs_pc = "done" => DOMAIN return_boxes = HeaderCodes(report)

\* C4: when a report holds two sections of the same region code, one after
\* the other, and both are stored, the entry of that code is the record of
\* the data lines of the later section alone.
C4_LaterSectionOverwrites ==
    rs_pc = "done" =>
        \A s \in 1..Len(report) : \A a \in (s + 2)..Len(report) :
          \A b \in (a + 3)..Len(report) :
            TwoSections(report, s, a, b) =>
                /\ match[report[s]].box[1] \in DOMAIN return_boxes
                /\ return_boxes[match[report[s]].box[1]] =
                       SectionRecord(match[report[s]].box[1],
                                     SubSeq(report, a + 3, b - 1))

\* C4 witness: two stored sections of one code, the earlier one with a
\* data line, the later one with none
C4_Witness ==
    /\ rs_pc = "done"
    /\ \E s \in 1..Len(report) : \E a \in (s + 2)..Len(report) :
        \E b \in (a + 3)..Len(report) :
          /\ TwoSections(report, s, a, b)
          /\ a > s + 2
          /\ b = a + 3
          /\ return_boxes[match[report[s]].box[1]].storms = <<>>
          /\ return_boxes[match[report[s]].box[1]].stats = <<>>

\* C5: a line whose latitude index is outside [0, jx), and in particular a
\* line of latitude -87.0, makes ingestion fail with a range error.
C5_LatitudeOutOfRangeRaises ==
    (Ingested # <<>> /\ Len(Last(Ingested)) = 6
        /\ (lat_index(Last(Ingested)[2]) \notin 0..(jx - 1)
            \/ Last(Ingested)[2] = -870))
        => h_pc = "IndexError"

\* C6: the raw longitude index of every longitude read is
\* floor(longitude/DLON + 0.5).
C6_RawIndexIsFloor ==
    (Ingested # <<>> /\ Len(Last(Ingested)) = 6)
        => lon_index(Last(Ingested)[1]) =
               (2 * Last(Ingested)[1] + DLON) \div (2 * DLON)

\* C7: when the lines read are a point of longitude -2.5 and a point of
\* longitude 357.5 of the same latitude, in either order, one cell holds
\* both.
C7_HalfCellWrapSameCell ==
    (/\ Len(Ingested) = 2
     /\ Len(Ingested[1]) = 6
     /\ Len(Ingested[2]) = 6
     /\ {Ingested[1][1], Ingested[2][1]} = {-(DLON \div 2), 3600 - DLON \div 2}
     /\ Ingested[1][2] = Ingested[2][2])
        => CellsWith(2) # {}

C7_Witness ==
    /\ h_pc = "done"
    /\ Ingested = <<Event(-25, 0), Event(3575, 0)>>
    /\ storm_count[0][lat_index(0)] = 2

\* C8: as long as nothing is raised, the cells are natural numbers and
\* their sum is the number of lines read; when ingestion is done the sum is
\* the number of lines of all the files of the range.
C8_SumIsLineCount ==
    NoError =>
        /\ \A a \in NonZeroRows(storm_count) : \A b \in 0..(jx - 1) :
               storm_count[a][b] \in Nat
        /\ GridSum(storm_count) = Len(Ingested)
        /\ h_pc = "done" =>
               GridSum(storm_count) = Len(Concatenation(files, beg_year, end_year))

C8_Witness ==
    /\ h_pc = "done"
    /\ beg_year < end_year
    /\ Len(files[beg_year]) = 1
    /\ Len(files[end_year]) = 1
    /\ CellsWith(2) # {}

\* C9: the point counted last lies in the bands of its cell (i, j):
\* longitude modulo 360 in [i*DLON, (i+1)*DLON) and latitude in
\* [SLAT + j*DLAT, SLAT + (j+1)*DLAT).
C9_PointInCellBands ==
    (NoError /\ Ingested # <<>>)
        => LET ci == np_index(i, ix)
               cj == np_index(j, jx)
           IN  /\ ci * DLON <= xcyc % 3600
               /\ xcyc % 3600 < (ci + 1) * DLON
               /\ SLAT + cj * DLAT <= ycyc
               /\ ycyc < SLAT + (cj + 1) * DLAT

\* C10: when cat_ori_files has returned, the combined file holds the
\* contents of ori_<beg_year> .. ori_<end_year> in ascending year order and
\* nothing else.
C10_CombinedIsConcatenation ==
    cat_pc = "done" => combined = Concatenation(files, beg_year, end_year)

C10_Witness ==
    /\ cat_pc = "done"
    /\ beg_year = 2001
    /\ end_year = 2003
    /\ files[2001] # <<>>
    /\ files[2002] # <<>>
    /\ files[2003] # <<>>
    /\ files[2001] # files[2002]
    /\ combined = files[2001] \o files[2002] \o files[2003]


\* some year of the range has no file
SomeYearAbsent == \E y \in beg_year..end_year : y \notin DOMAIN files

\* C11: when the file of some year of the range is absent, whichever year,
\* the run gets no further than the concatenation, where it ends with
\* FileNotFoundError: no statistics file is delivered, the grid is never
\* allocated and ingestion never starts, so no histogram is built from the
\* years that are present.
C11_AbsentYearFailsRun ==
    SomeYearAbsent
    => /\ gs_pc \in {"start", "cat", "FileNotFoundError"}
       /\ cat_pc \in {"idle", "open", "years", "FileNotFoundError"}
       /\ gs_pc = "FileNotFoundError" => cat_pc = "FileNotFoundError"
       /\ cat_pc = "years" => \A y \in beg_year..(cat_year - 1) : y \in DOMAIN files
       /\ h_pc = "idle"
       /\ storm_count = <<>>
       /\ ~ stats_file

\* the first year has its file with an event in it, the last year has none,
\* and the constructor has ended with FileNotFoundError
C11_Witness ==
    /\ cat_impl = "ori"
    /\ beg_year < end_year
    /\ beg_year \in DOMAIN files
    /\ files[beg_year] # <<>>
    /\ end_year \notin DOMAIN files
    /\ gs_pc = "FileNotFoundError"
    /\ combined = files[beg_year]

\* C12: when the generator ends with a non-zero status or without leaving
\* stat_mo, the run fails: it does not finish normally and no statistics
\* file is delivered.
C12_GeneratorFailureFailsRun ==
    (gs_pc \in {"copy", "exit", "done"} /\ (returncode # 0 \/ ~ stat_mo))
    => /\ gs_pc # "done"
       /\ ~ stats_file

\* C15: when _gen_stats has ended, by a return or by an exception, the
\* working directory is the one it was called in.
C15_WorkingDirectoryRestored ==
    (cat_impl = "ori" /\ gs_pc \in {"done", "FileNotFoundError"})
    => cwd = "prev_cwd"


\* the position of the first header line of a report, 0 when it has none
FirstHeader(lines) ==
    LET hs == {k \in 1..Len(lines) : IsHeader(lines[k])}
    IN  IF hs = {} THEN 0 ELSE CHOOSE k \in hs : \A n \in hs : k <= n

\* C13: the first header line of a report, line s, opens an empty record for
\* its region code; line s + 1 is taken without being classified, whatever
\* it is: the record stays empty and nothing is stored; line s + 2 is the
\* first line tested as a data line of the section.
C13_HeaderSkipsOneLine ==
    LET s == FirstHeader(report)
        new == StormBox(match[report[s]].box[1])
    IN  s > 0
        => /\ Len(report) = s
              => /\ rs_pc \in {"skip", "done"}
                 /\ box = new
                 /\ return_boxes = <<>>
           /\ Len(report) = s + 1
              => /\ rs_pc \in {"inner", "done"}
                 /\ box = new
                 /\ return_boxes = <<>>
           /\ Len(report) = s + 2
              => LET l == report[s + 2]
                 IN  IF match[l].year # <<>>
                     THEN /\ rs_pc \in {"inner", "done"}
                          /\ box = add_storms(new, match[l].year[1], match[l].year[2],
                                              match[l].year[3])
                          /\ return_boxes = <<>>
                     ELSE IF match[l].stat # <<>>
                     THEN /\ rs_pc \in {"inner", "done"}
                          /\ box = add_stats(new, match[l].stat[1], match[l].stat[2])
                          /\ return_boxes = <<>>
                     ELSE /\ rs_pc \in {"outer", "done"}
                          /\ box = new
                          /\ return_boxes = StoreBox(<<>>, new)

\* a header line, then a year line that is skipped, then a header line that
\* is tested as a data line and so ends the section
C13_Witness ==
    /\ report = <<HdrNH, YearLine, HdrSH>>
    /\ rs_pc = "outer"
    /\ box = StormBox(match[HdrNH].box[1])
    /\ return_boxes = StoreBox(<<>>, box)


\* line.split(): the maximal runs of characters that are no spaces
RECURSIVE split(_)
split(line) ==
    IF line = <<>> THEN <<>>
    ELSE IF Last(line) = " " THEN split(SubSeq(line, 1, Len(line) - 1))
    ELSE LET n == Len(line)
             starts == {k \in 1..n : \A m \in k..n : line[m] # " "}
             a == CHOOSE k \in starts : \A m \in starts : k <= m
         IN  Append(split(SubSeq(line, 1, a - 1)), SubSeq(line, a, n))

\* the lines read inside the section of SpecYearLn
SectionLines == SubSeq(report, 3, Len(report))

\* C14: a line of integer tokens read inside a section gives a year row if
\* and only if it has exactly 14 tokens, and the monthly counts of the row
\* are tokens 2 to 13 of the line.
C14_YearLineIsFourteenIntegers ==
    /\ Len(box.storms) =
           Cardinality({k \in 1..Len(SectionLines) : Len(split(SectionLines[k])) = 14})
    /\ \A k \in 1..Len(box.storms) :
           split(box.storms[k][2]) = SubSeq(split(SectionLines[k]), 2, 13)


\* the ingestion loop has just computed i and j from a line of six tokens
Binned == Ingested # <<>> /\ Len(Last(Ingested)) = 6

\* C16: a point whose latitude is in -90..90 degrees gets the row index
\* j = int((lat - SLAT)/DLAT + 0.5) inside [0, jx), and its latitude raises
\* no IndexError.
C16_ValidLatitudeInGrid ==
    (Binned /\ -900 <= Last(Ingested)[2] /\ Last(Ingested)[2] <= 900)
    => /\ j = lat_index(Last(Ingested)[2])
       /\ 0 <= j /\ j < jx
       /\ (0 <= i /\ i < ix) => h_pc # "IndexError"

\* C17: a point whose longitude is in -360 <= lon < 720 degrees gets, after
\* the single wraparound step, a column index inside [0, ix).
C17_WrapYieldsColumn ==
    (Binned /\ -3600 <= Last(Ingested)[1] /\ Last(Ingested)[1] < 7200)
    => /\ i = wrap(lon_index(Last(Ingested)[1]))
       /\ 0 <= i /\ i < ix

\* C18: when the method cat_ori_files has returned, the value returned is
\* the path of the combined file.
C18_ReturnsCombinedPath ==
    (cat_impl = "ori" /\ cat_pc = "done") => retval = OutPath

=============================================================================
